---- MODULE Spec2Model ----
(***************************************************************************)
(* Worker pool of the image compressor: AppController (app.py),            *)
(* CompressorWorker (workers.py) and the strategies (compressors.py).      *)
(*                                                                         *)
(* Every block of AppController that runs under `with self._lock` is one   *)
(* atomic action; the UI thread's handlers start_run, start_dry_run, stop  *)
(* and on_clear are such blocks.  What the code reads without the lock     *)
(* (self.workers and self.task_queue in the two background threads, the    *)
(* workers' view of stop_event and of their own queue) is read in a step   *)
(* of its own.  Statements of a thread that touch nothing another thread   *)
(* can see are part of the step they follow.  A join with a timeout        *)
(* returns whether or not the thread joined has exited, so it constrains   *)
(* nothing.                                                                *)
(*                                                                         *)
(* A queue.Queue object is identified by the number of the run whose       *)
(* _start_workers call created it; 0 stands for None.  A callback is       *)
(* counted when the worker calls it.                                       *)
(*                                                                         *)
(* The values a callback receives are followed in a second specification,  *)
(* CallSpec: one item with its source, destination, quality and the        *)
(* outcome of every strategy call drawn at the start, taken through the    *)
(* worker's real or dry branch or through a direct call of smart_compress. *)
(***************************************************************************)
EXTENDS Integers, Sequences, FiniteSets, TLC

\* ---------------------------------------------------------------- bounds
\* Each bound counts over a whole behaviour: accepted start requests, stop
\* requests that find a run, the two together, worker threads created, and
\* paths enqueued.
MaxRuns == 2
MaxStops == 2
MaxRequests == 3
MaxWorkers == 2
MaxItems == 2

\* ---------------------------------------------------------------- values
NoQueue == 0
NoSrc == "none"
NoSize == -1
NoneStr == "None"

\* Source paths a user can select, in the order the file list shows them.
PathList == << "/p/a.jpg", "/p/c.txt" >>
Paths == { PathList[i] : i \in 1..Len(PathList) }

\* The same selection with a file of another folder in it that has the name
\* of one of them: the file dialog offers any folder, and the list refuses a
\* path it already holds (ui.py:291), not a name.
FolderPathList == << "/p/a.jpg", "/q/a.jpg", "/p/c.txt" >>
ItemPaths == { FolderPathList[i] : i \in 1..Len(FolderPathList) }

\* Further paths a strategy can be called with.
Sources == Paths \cup { "/p/b.png", "/p/D.JPG", "/p/e.jpeg" }

\* os.path.splitext(src)[1]
splitext(p) ==
    CASE p = "/p/a.jpg" -> ".jpg"
      [] p = "/q/a.jpg" -> ".jpg"
      [] p = "/p/b.png" -> ".png"
      [] p = "/p/D.JPG" -> ".JPG"
      [] p = "/p/e.jpeg" -> ".jpeg"
      [] OTHER -> ".txt"

\* str.lower() on an extension
lower(e) == IF e = ".JPG" THEN ".jpg" ELSE e

\* The extension as the path spells it.
ExtAsWritten(p) == splitext(p)

\* os.path.splitext(src)[1].lower()
Ext(p) == lower(splitext(p))

\* os.path.basename(src)
Basename(p) ==
    CASE p = "/p/a.jpg" -> "a.jpg"
      [] p = "/q/a.jpg" -> "a.jpg"
      [] p = "/p/b.png" -> "b.png"
      [] p = "/p/D.JPG" -> "D.JPG"
      [] p = "/p/e.jpeg" -> "e.jpeg"
      [] OTHER -> "c.txt"

Basenames == { Basename(p) : p \in Paths }

\* os.path.join(outdir, os.path.basename(src))
Dst(dir, src) == dir \o "/" \o Basename(src)

\* os.path.getsize of a source file before anything is written, in KB
get_size(p) ==
    CASE p = "/p/a.jpg" -> 4
      [] p = "/q/a.jpg" -> 7
      [] p = "/p/b.png" -> 3
      [] p = "/p/D.JPG" -> 6
      [] p = "/p/e.jpeg" -> 5
      [] OTHER -> 2

Runs == 1..MaxRuns
WorkerIds == Runs \X (1..MaxWorkers)
JoinIds == 1..MaxStops

\* A result tuple (original size, new size, method label, error).
Result(o, n, m, e) == [orig |-> o, new |-> n, method |-> m, err |-> e]

RECURSIVE SubSeqOf(_, _)
\* The members of s that lie in S, in the order of s.
SubSeqOf(s, S) ==
    IF s = << >> THEN << >>
    ELSE IF Head(s) \in S THEN << Head(s) >> \o SubSeqOf(Tail(s), S)
         ELSE SubSeqOf(Tail(s), S)

\* The file lists a start request carries: AppUI never starts a run with an
\* empty list (ui.py:431) and never holds a path twice (ui.py:291).
FileLists == { SubSeqOf(PathList, S) : S \in SUBSET Paths \ {{}} }
FolderFileLists == { SubSeqOf(FolderPathList, S) : S \in SUBSET ItemPaths \ {{}} }

RECURSIVE WorkerSeq(_, _)
\* The list _start_workers builds: workers 1..n of run r, in creation order.
WorkerSeq(r, n) == IF n = 0 THEN << >> ELSE WorkerSeq(r, n - 1) \o << << r, n >> >>

VARIABLES
    task_queue,     \* AppController.task_queue: NoQueue or a queue id
    workers,        \* AppController.workers: sequence of worker ids
    stop_event,     \* AppController.stop_event (one Event for every run)
    nruns,          \* number of accepted start requests (queue ids handed out)
    qitems,         \* queue id -> items still in the queue
    unfinished,     \* queue id -> Queue.unfinished_tasks
    wk,             \* worker id -> state of the CompressorWorker thread
    mon,            \* run -> state of its _monitor_workers thread
    njoin,          \* number of _join_workers threads spawned
    jt,             \* join id -> state of a _join_workers thread
    uiLog,          \* the last line a UI-thread handler passed to ui.set_log
    hist,           \* <<run, path>> -> what happened to that item
    stopComplete,   \* run -> number of "stop complete" notifications
    allComplete,    \* run -> number of "all tasks complete" notifications
    outdir,         \* the output directory: does it exist, who made it, who wrote in it
    call            \* one item on its way from the UI's start button to its result

vars == << task_queue, workers, stop_event, nruns, qitems, unfinished, wk, mon,
           njoin, jt, uiLog, hist, stopComplete, allComplete, outdir, call >>

\* ------------------------------------------------------------ initial state
NewWorker == [pc |-> "unborn", dry |-> FALSE, src |-> NoSrc, tmp |-> FALSE, exc |-> FALSE]
NewMonitor == [pc |-> "unborn", q |-> NoQueue]
NewJoiner == [pc |-> "unborn", run |-> 0]
NewHist == [taken |-> 0, logged |-> 0, updated |-> 0, done |-> 0]
NoCall == [pc |-> "none"]

\* The directory the UI proposes for the output (OUTPUT_DIR).
OutputDir == "/out"

\* AppController.__init__; the output directory named in the UI's entry field
\* does not exist yet.
PoolInit ==
    /\ task_queue = NoQueue
    /\ workers = << >>
    /\ stop_event = FALSE
    /\ nruns = 0
    /\ qitems = [r \in Runs |-> << >>]
    /\ unfinished = [r \in Runs |-> 0]
    /\ wk = [w \in WorkerIds |-> NewWorker]
    /\ mon = [r \in Runs |-> NewMonitor]
    /\ njoin = 0
    /\ jt = [j \in JoinIds |-> NewJoiner]
    /\ uiLog = "none"
    /\ hist = [i \in Runs \X ItemPaths |-> NewHist]
    /\ stopComplete = [r \in Runs |-> 0]
    /\ allComplete = [r \in Runs |-> 0]
    /\ outdir = [exists |-> FALSE, madeBy |-> 0, writers |-> {}]

\* No item is followed through its values while the pool runs.
Init == PoolInit /\ call = NoCall

\* --------------------------------------------------- compressors.py
\* What the environment lets each strategy call do: TRUE when the call succeeds.
Envs == [jpeg : BOOLEAN, pngquant : BOOLEAN, pillow_png : BOOLEAN, copy : BOOLEAN]

\* The pngquant subprocess: does it ever exit, with which code, and has it
\* written its --output file.
Procs == [exits : BOOLEAN, rc : {0, 1}, wrote : BOOLEAN]

\* subprocess.check_call raises on a non-zero exit code and shutil.move
\* raises when the --output file is missing; both land in the except clause.
pngquant_ok(proc) == proc.rc = 0 /\ proc.wrote

\* jpeg_quality=85, the default of smart_compress, and quality=85 in the
\* worker's dry-run estimate.
DefaultJpegQuality == 85
DryRunJpegQuality == 85

\* Size of the re-encoded file a strategy leaves at dst.
EncodedSize(src) == get_size(src) - 1

\* get_size(p) once a strategy has written its output for src to dst.
size_after(p, src, dst) == IF p = dst THEN EncodedSize(src) ELSE get_size(p)

\* A re-encoder that reports the sizes it finds along with its error.
compress_jpeg_pillow_partial(src, dst, quality, ok) ==
    Result(size_after(src, src, dst), size_after(dst, src, dst),
           "Pillow(JPEG q=" \o ToString(quality) \o ")", IF ok THEN NoneStr ELSE "jpeg-error")

\* The strategies: both sizes are taken in the return statement, after
\* img.save / shutil.move has written dst; any exception gives the error tuple.
compress_jpeg_pillow(src, dst, quality, ok) ==
    IF ok THEN Result(size_after(src, src, dst), size_after(dst, src, dst),
                      "Pillow(JPEG q=" \o ToString(quality) \o ")", NoneStr)
    ELSE Result(NoSize, NoSize, NoneStr, "jpeg-error")

compress_png_pngquant(src, dst, ok) ==
    IF ok THEN Result(size_after(src, src, dst), size_after(dst, src, dst), "pngquant", NoneStr)
    ELSE Result(NoSize, NoSize, NoneStr, "pngquant-error")

compress_png_pillow(src, dst, ok) ==
    IF ok THEN Result(size_after(src, src, dst), size_after(dst, src, dst),
                      "Pillow(PNG lvl=9)", NoneStr)
    ELSE Result(NoSize, NoSize, NoneStr, "png-error")

\* smart_compress raises only in its last branch: shutil.copy2 (or a size
\* probe after it) is not inside any try, and copy2 raises SameFileError when
\* dst is the source itself.
smart_compress_raises(src, dst, env) ==
    /\ Ext(src) \notin {".jpg", ".jpeg", ".png"}
    /\ (~env.copy \/ src = dst)

\* The tuple smart_compress returns when it returns.
smart_compress(src, dst, prefer_pngquant, jpeg_quality, env) ==
    IF Ext(src) \in {".jpg", ".jpeg"} THEN
        LET res == compress_jpeg_pillow(src, dst, jpeg_quality, env.jpeg) IN
        IF res.err = NoneStr THEN res
        ELSE Result(NoSize, NoSize, NoneStr, "Pillow JPEG failed: " \o res.err)
    ELSE IF Ext(src) = ".png" THEN
        LET res1 == compress_png_pngquant(src, dst, env.pngquant)
            res2 == compress_png_pillow(src, dst, env.pillow_png) IN
        IF prefer_pngquant /\ res1.err = NoneStr THEN res1
        ELSE IF res2.err = NoneStr THEN res2
        ELSE Result(NoSize, NoSize, NoneStr, "Both pngquant and Pillow failed: " \o res2.err)
    ELSE Result(get_size(src), get_size(src), "copy", NoneStr)

\* One call of a strategy made by smart_compress, with the tuple it returned.
StrategyCall(f, r) == [fn |-> f, res |-> r]

\* A dispatcher that runs the Pillow PNG re-encoder whatever pngquant did.
strategy_calls_eager(src, dst, prefer_pngquant, jpeg_quality, env) ==
    IF Ext(src) \in {".jpg", ".jpeg"} THEN
        << StrategyCall("compress_jpeg_pillow",
                        compress_jpeg_pillow(src, dst, jpeg_quality, env.jpeg)) >>
    ELSE IF Ext(src) = ".png" THEN
        (IF prefer_pngquant
         THEN << StrategyCall("compress_png_pngquant",
                              compress_png_pngquant(src, dst, env.pngquant)) >>
         ELSE << >>)
        \o << StrategyCall("compress_png_pillow",
                           compress_png_pillow(src, dst, env.pillow_png)) >>
    ELSE << >>

\* The strategy calls smart_compress makes, in the order it makes them.
strategy_calls(src, dst, prefer_pngquant, jpeg_quality, env) ==
    IF Ext(src) \in {".jpg", ".jpeg"} THEN
        << StrategyCall("compress_jpeg_pillow",
                        compress_jpeg_pillow(src, dst, jpeg_quality, env.jpeg)) >>
    ELSE IF Ext(src) = ".png" THEN
        (IF prefer_pngquant
         THEN << StrategyCall("compress_png_pngquant",
                              compress_png_pngquant(src, dst, env.pngquant)) >>
         ELSE << >>)
        \o (IF prefer_pngquant /\ env.pngquant
            THEN << >>
            ELSE << StrategyCall("compress_png_pillow",
                                 compress_png_pillow(src, dst, env.pillow_png)) >>)
    ELSE << >>

\* ------------------------------------------------------- AppController
\* Threads created and paths enqueued so far, over all runs.
NumWorkers == Cardinality({ w \in WorkerIds : wk[w].pc # "unborn" })
NumItems ==
    Cardinality({ i \in Runs \X ItemPaths : hist[i].taken > 0 })
      + Cardinality({ i \in Runs \X ItemPaths : \E k \in 1..Len(qitems[i[1]]) : qitems[i[1]][k] = i[2] })

\* _start_workers with a run active: the log line and `return`.
StartRejectedClearsFlag ==
    /\ uiLog' = "already running"
    /\ stop_event' = FALSE
    /\ UNCHANGED << task_queue, workers, nruns, qitems, unfinished, wk,
                    mon, njoin, jt, hist, stopComplete, allComplete, outdir, call >>

StartRejected ==
    /\ uiLog' = "already running"
    /\ UNCHANGED << task_queue, workers, stop_event, nruns, qitems, unfinished, wk,
                    mon, njoin, jt, hist, stopComplete, allComplete, outdir, call >>

\* _start_workers, the whole `with self._lock` block.
_start_workers(files, thread_count, dry_run) ==
    IF workers # << >> THEN StartRejected
    ELSE
        /\ nruns < MaxRuns
        /\ nruns + njoin < MaxRequests
        /\ NumWorkers + thread_count <= MaxWorkers
        /\ NumItems + Len(files) <= MaxItems
        /\ LET r == nruns + 1 IN
            /\ nruns' = r
            /\ task_queue' = r
            /\ qitems' = [qitems EXCEPT ![r] = files]
            /\ unfinished' = [unfinished EXCEPT ![r] = Len(files)]
            /\ stop_event' = FALSE
            /\ outdir' = [outdir EXCEPT !.exists = TRUE,
                                        !.madeBy = IF outdir.exists THEN @ ELSE r]
            /\ workers' = WorkerSeq(r, thread_count)
            /\ wk' = [w \in WorkerIds |->
                        IF w[1] = r /\ w[2] <= thread_count
                        THEN [NewWorker EXCEPT !.pc = "loop", !.dry = dry_run]
                        ELSE wk[w]]
            /\ uiLog' = "started"
            /\ mon' = [mon EXCEPT ![r] = [NewMonitor EXCEPT !.pc = "check"]]
        /\ UNCHANGED << njoin, jt, hist, stopComplete, allComplete, call >>

start_run ==
    \E files \in FileLists, n \in 1..MaxWorkers : _start_workers(files, n, FALSE)

start_dry_run ==
    \E files \in FileLists, n \in 1..MaxWorkers : _start_workers(files, n, TRUE)

\* stop with no worker listed: the log line and `return`.
StopNothingRunningSetsFlag ==
    /\ uiLog' = "stop: nothing running"
    /\ stop_event' = TRUE
    /\ UNCHANGED << task_queue, workers, nruns, qitems, unfinished, wk,
                    mon, njoin, jt, hist, stopComplete, allComplete, outdir, call >>

StopNothingRunning ==
    /\ uiLog' = "stop: nothing running"
    /\ UNCHANGED << task_queue, workers, stop_event, nruns, qitems, unfinished, wk,
                    mon, njoin, jt, hist, stopComplete, allComplete, outdir, call >>

stop ==
    IF workers = << >> THEN StopNothingRunning
    ELSE
        /\ njoin < MaxStops
        /\ nruns + njoin < MaxRequests
        /\ uiLog' = "stop: flag sent"
        /\ stop_event' = TRUE
        /\ njoin' = njoin + 1
        /\ jt' = [jt EXCEPT ![njoin + 1] = [NewJoiner EXCEPT !.pc = "join", !.run = workers[1][1]]]
        /\ UNCHANGED << task_queue, workers, nruns, qitems, unfinished, wk, mon, hist,
                        stopComplete, allComplete, outdir, call >>

on_clear ==
    /\ task_queue' = NoQueue
    /\ workers' = << >>
    /\ stop_event' = FALSE
    /\ UNCHANGED << nruns, qitems, unfinished, wk, mon, njoin, jt, uiLog, hist,
                    stopComplete, allComplete, outdir, call >>

\* The reset both background threads make under the lock.
ResetKeepsStopFlag ==
    /\ task_queue' = NoQueue
    /\ workers' = << >>
    /\ UNCHANGED stop_event

ResetRunState ==
    /\ task_queue' = NoQueue
    /\ workers' = << >>
    /\ stop_event' = FALSE

\* _join_workers, whole: each w.join(timeout=...) over list(self.workers)
\* returns when w has exited or when what is left of the 10 s has run out,
\* so the loop changes nothing and always ends; then the reset under the
\* lock and the "stop complete" line.
_join_workers(j) ==
    /\ jt[j].pc = "join"
    /\ ResetRunState
    /\ jt' = [jt EXCEPT ![j].pc = "done"]
    /\ stopComplete' = [stopComplete EXCEPT ![jt[j].run] = @ + 1]
    /\ UNCHANGED << nruns, qitems, unfinished, wk, mon, njoin, uiLog, hist,
                    allComplete, outdir, call >>

\* _monitor_workers up to the call of Queue.join(): `if not self.task_queue:
\* return`, then self.task_queue is read once more for .join().  Should that
\* second read find None, the AttributeError ends the thread as the return
\* does, with nothing changed.
MonitorCheck(r) ==
    /\ mon[r].pc = "check"
    /\ mon' = [mon EXCEPT ![r].pc = IF task_queue = NoQueue THEN "returned" ELSE "qjoin",
                          ![r].q = task_queue]
    /\ UNCHANGED << task_queue, workers, stop_event, nruns, qitems, unfinished, wk,
                    njoin, jt, uiLog, hist, stopComplete, allComplete, outdir, call >>

\* _monitor_workers from the moment Queue.join() returns (unfinished_tasks
\* is 0): the w.join(timeout=0.2) calls return on exit or after 0.2 s, then
\* the reset under the lock and the "all tasks complete" line.
MonitorFinish(r) ==
    /\ mon[r].pc = "qjoin"
    /\ unfinished[mon[r].q] = 0
    /\ ResetRunState
    /\ mon' = [mon EXCEPT ![r].pc = "done"]
    /\ allComplete' = [allComplete EXCEPT ![r] = @ + 1]
    /\ UNCHANGED << nruns, qitems, unfinished, wk, njoin, jt, uiLog, hist,
                    stopComplete, outdir, call >>

_monitor_workers(r) == MonitorCheck(r) \/ MonitorFinish(r)

\* ---------------------------------------------- CompressorWorker.run
SetWorker(w, rec) ==
    /\ wk' = [wk EXCEPT ![w] = rec]
    /\ UNCHANGED << task_queue, workers, stop_event, nruns, mon, njoin, jt, uiLog,
                    stopComplete, allComplete, call >>

Item(w) == << w[1], wk[w].src >>

\* What Queue.get leaves in the queue: the item handed out is removed.
QueueAfterPeek(items) == items

QueueAfterGet(items) == Tail(items)

\* `while not self.stop_event.is_set()`
WorkerLoop(w) ==
    /\ wk[w].pc = "loop"
    /\ SetWorker(w, [wk[w] EXCEPT !.pc = IF stop_event THEN "exited" ELSE "get"])
    /\ UNCHANGED << qitems, unfinished, hist, outdir >>

\* self.q.get(timeout=0.5): an item, or queue.Empty and `break`.  Nothing is
\* put into a queue after its run has started, so an empty queue stays empty.
WorkerGet(w) ==
    /\ wk[w].pc = "get"
    /\ IF qitems[w[1]] # << >> THEN
            LET src == Head(qitems[w[1]]) IN
            /\ qitems' = [qitems EXCEPT ![w[1]] = QueueAfterGet(@)]
            /\ hist' = [hist EXCEPT ![<< w[1], src >>].taken = @ + 1]
            /\ SetWorker(w, [wk[w] EXCEPT !.src = src,
                                          !.pc = IF wk[w].dry THEN "mkstemp" ELSE "compress"])
       ELSE
            /\ SetWorker(w, [wk[w] EXCEPT !.pc = "exited"])
            /\ UNCHANGED << qitems, hist >>
    /\ UNCHANGED << unfinished, outdir >>

\* dry run: tempfile.mkstemp creates the scratch file.
WorkerMkstemp(w) ==
    /\ wk[w].pc = "mkstemp"
    /\ SetWorker(w, [wk[w] EXCEPT !.tmp = TRUE, !.pc = "estimate"])
    /\ UNCHANGED << qitems, unfinished, hist, outdir >>

\* dry run, the inner try: the Pillow strategies return a tuple whatever
\* happens; for another extension newsz = get_size(src) may raise.
EstimateRaises(src, env) == Ext(src) \notin {".jpg", ".jpeg", ".png"} /\ ~env.copy

\* dry run, the inner finally: os.remove(tmp) when tmp exists, whether or not
\* an exception is on its way out.  The result says whether tmp still exists.
CleanupUnlessRaised(tmp, raised) == tmp /\ raised

Cleanup(tmp, raised) == IF tmp THEN FALSE ELSE tmp

\* dry run: the scratch file mkstemp makes, suffix = the source's extension.
TmpPath(src) == "/tmp/tmp" \o splitext(src)

\* dry run, the inner try when it does not raise: what it leaves in newsz,
\* method_name and err (the first member of a strategy's tuple is dropped).
estimate(src, env) ==
    IF Ext(src) \in {".jpg", ".jpeg"}
    THEN compress_jpeg_pillow(src, TmpPath(src), DryRunJpegQuality, env.jpeg)
    ELSE IF Ext(src) = ".png"
    THEN compress_png_pillow(src, TmpPath(src), env.pillow_png)
    ELSE Result(NoSize, get_size(src), "copy", NoneStr)

\* dry run: the strategy calls of the inner try.
estimate_calls(src, env) ==
    IF Ext(src) \in {".jpg", ".jpeg"}
    THEN << StrategyCall("compress_jpeg_pillow",
                         compress_jpeg_pillow(src, TmpPath(src), DryRunJpegQuality, env.jpeg)) >>
    ELSE IF Ext(src) = ".png"
    THEN << StrategyCall("compress_png_pillow",
                         compress_png_pillow(src, TmpPath(src), env.pillow_png)) >>
    ELSE << >>

\* dry run: the values handed to self.log; orig = get_size(src) is taken
\* after the estimate, which has written to the scratch file only.
dry_run_log(src, env) ==
    LET e == estimate(src, env) IN
    Result(get_size(src), e.new, e.method \o " | dst: (dry-run no write)", e.err)

\* real run: the values handed to self.log; the worker calls
\* smart_compress(src, dst) and so with the defaults of its other parameters.
real_run_log(src, dst, env) ==
    LET r == smart_compress(src, dst, TRUE, DefaultJpegQuality, env) IN
    Result(r.orig, r.new, r.method \o " | dst: " \o dst, r.err)

\* The two callbacks, in the order run() makes them.
Report(item) ==
    hist' = [hist EXCEPT ![item].logged = @ + 1, ![item].updated = @ + 1]

\* dry run, from the inner try to the callbacks: the estimate, the finally,
\* orig = get_size(src) (outside the inner try, it may raise as well), then
\* self.log and self.update.  An exception skips the callbacks.
WorkerEstimate(w) ==
    /\ wk[w].pc = "estimate"
    /\ \E env \in Envs, sizeOk \in BOOLEAN :
         LET src == wk[w].src
             raised == EstimateRaises(src, env) \/ ~sizeOk
         IN /\ SetWorker(w, [wk[w] EXCEPT !.pc = "task_done",
                                          !.tmp = Cleanup(wk[w].tmp, EstimateRaises(src, env)),
                                          !.exc = raised])
            /\ IF raised THEN UNCHANGED hist ELSE Report(Item(w))
    /\ UNCHANGED << qitems, unfinished, outdir >>

\* real run: dst = outdir/basename(src), smart_compress(src, dst), then
\* self.log and self.update.  An exception skips the callbacks.
WorkerCompress(w) ==
    /\ wk[w].pc = "compress"
    /\ \E env \in Envs :
         LET src == wk[w].src
             dst == Dst(OutputDir, src)
             r == smart_compress(src, dst, TRUE, DefaultJpegQuality, env)
         IN IF smart_compress_raises(src, dst, env) THEN
                /\ SetWorker(w, [wk[w] EXCEPT !.pc = "task_done", !.exc = TRUE])
                /\ UNCHANGED << hist, outdir >>
            ELSE
                /\ SetWorker(w, [wk[w] EXCEPT !.pc = "task_done"])
                /\ Report(Item(w))
                /\ outdir' = IF r.err = NoneStr
                             THEN [outdir EXCEPT !.writers = @ \cup {w[1]}]
                             ELSE outdir
    /\ UNCHANGED << qitems, unfinished >>

\* A worker whose finally is skipped when an exception is in flight.
WorkerTaskDoneUnlessRaised(w) ==
    /\ wk[w].pc = "task_done"
    /\ unfinished' = [unfinished EXCEPT ![w[1]] = IF wk[w].exc THEN @ ELSE @ - 1]
    /\ hist' = [hist EXCEPT ![Item(w)].done = IF wk[w].exc THEN @ ELSE @ + 1]
    /\ SetWorker(w, [wk[w] EXCEPT !.pc = IF wk[w].exc THEN "dead" ELSE "loop",
                                  !.src = NoSrc])
    /\ UNCHANGED << qitems, outdir >>

\* the outer finally: self.q.task_done(); an exception in flight then leaves
\* run() and the thread is gone.
WorkerTaskDone(w) ==
    /\ wk[w].pc = "task_done"
    /\ unfinished' = [unfinished EXCEPT ![w[1]] = @ - 1]
    /\ hist' = [hist EXCEPT ![Item(w)].done = @ + 1]
    /\ SetWorker(w, [wk[w] EXCEPT !.pc = IF wk[w].exc THEN "dead" ELSE "loop",
                                  !.src = NoSrc])
    /\ UNCHANGED << qitems, outdir >>

run(w) ==
    \/ WorkerLoop(w) \/ WorkerGet(w) \/ WorkerMkstemp(w) \/ WorkerEstimate(w)
    \/ WorkerCompress(w) \/ WorkerTaskDone(w)

\* ------------------------------------------------------- specification
Next ==
    \/ start_run
    \/ start_dry_run
    \/ stop
    \/ on_clear
    \/ \E w \in WorkerIds : run(w)
    \/ \E j \in JoinIds : _join_workers(j)
    \/ \E r \in Runs : _monitor_workers(r)

Spec == Init /\ [][Next]_vars

\* A _join_workers thread, once started, is scheduled; its joins carry a
\* timeout, so it never waits for anything.
LiveSpec == Spec /\ \A j \in JoinIds : WF_vars(_join_workers(j))

\* A start request for a selection made from two folders.
start_from_folders ==
    \E files \in FolderFileLists, n \in 1..MaxWorkers, dry_run \in BOOLEAN :
        _start_workers(files, n, dry_run)

\* The pool with such selections, left to run: no stop, no clear.
FolderNext ==
    \/ start_from_folders
    \/ \E w \in WorkerIds : run(w)
    \/ \E r \in Runs : _monitor_workers(r)

FolderSpec == Init /\ [][FolderNext]_vars

\* The pool when the user never presses Clear.
NoClearNext ==
    \/ start_run
    \/ start_dry_run
    \/ stop
    \/ \E w \in WorkerIds : run(w)
    \/ \E j \in JoinIds : _join_workers(j)
    \/ \E r \in Runs : _monitor_workers(r)

\* Every thread that has been started is scheduled: a worker's next statement
\* (Queue.get and the joins carry a timeout, the strategy calls are taken to
\* return), a join thread, and a monitor thread whose Queue.join() can return.
FairRunSpec ==
    /\ Init /\ [][NoClearNext]_vars
    /\ \A w \in WorkerIds : WF_vars(run(w))
    /\ \A j \in JoinIds : WF_vars(_join_workers(j))
    /\ \A r \in Runs : WF_vars(_monitor_workers(r))

\* ------------------------------------------- one item, from request to result
\* The rest of the model counts callbacks; this part follows the values.  One
\* item is taken through one of three paths: "real" and "dry" are the
\* worker's two branches for an item of a run started from the UI, "call" is
\* a direct call smart_compress(src, dst, prefer_pngquant, jpeg_quality).
Kinds == { "call", "real", "dry" }

\* Values the quality spinbox can hold (quality_var), or jpeg_quality of a
\* direct call.
Qualities == { 5, 70, 85 }

\* Directories the output entry field can name: the proposed one, or the
\* one the sources are in.
OutputDirs == { OutputDir, "/p" }

\* AppUI._on_run: quality = max(10, min(100, int(self.quality_var.get())))
UiQuality(q) == IF q < 10 THEN 10 ELSE IF q > 100 THEN 100 ELSE q

\* The third positional argument of self.on_start(files_paths, outdir,
\* quality) is the parameter thread_count of start_run / start_dry_run.
ThreadCountOfRequest(q) == UiQuality(q)

\* quality= of the worker's compress_jpeg_pillow call: the dry branch writes
\* 85, the real branch leaves jpeg_quality of smart_compress at its default.
WorkerJpegQuality(dry) == IF dry THEN DryRunJpegQuality ELSE DefaultJpegQuality

poolVars == << task_queue, workers, stop_event, nruns, qitems, unfinished, wk, mon,
               njoin, jt, uiLog, hist, stopComplete, allComplete, outdir >>

\* The inputs of one item: which path it takes, the spinbox value (or the
\* jpeg_quality argument), the source, the output directory, and what the
\* environment does to each strategy.
CallInit ==
    /\ PoolInit
    /\ \E kind \in Kinds, q \in Qualities, src \in Sources, dir \in OutputDirs,
          prefer \in BOOLEAN, proc \in Procs, env \in Envs :
         /\ kind # "call" => prefer
         /\ env.pngquant = pngquant_ok(proc)
         /\ call = [pc |-> IF kind = "call" THEN "queued" ELSE "ui",
                    kind |-> kind, quality |-> q, src |-> src, dst |-> Dst(dir, src),
                    prefer_pngquant |-> prefer, proc |-> proc, env |-> env,
                    thread_count |-> 0, jpeg_quality |-> 0,
                    calls |-> << >>, returned |-> {}, logged |-> {},
                    ui_lines |-> {}, ui_status |-> "listed"]

\* AppUI._on_run / _on_dry_run up to AppController.start_run / start_dry_run.
on_start ==
    /\ call.pc = "ui"
    /\ call' = [call EXCEPT !.pc = "queued",
                            !.ui_status = "processing",
                            !.thread_count = ThreadCountOfRequest(call.quality)]
    /\ UNCHANGED poolVars

\* Does this item's path run the pngquant subprocess?
RunsPngquant ==
    /\ call.kind # "dry"
    /\ Ext(call.src) = ".png"
    /\ call.prefer_pngquant

CallRaises ==
    IF call.kind = "dry" THEN EstimateRaises(call.src, call.env)
    ELSE smart_compress_raises(call.src, call.dst, call.env)

\* jpeg_quality smart_compress is called with on this path.
CallJpegQuality ==
    IF call.kind = "call" THEN call.quality
    ELSE WorkerJpegQuality(call.kind = "dry")

\* AppController._log_callback: the parts of the line it hands to ui.set_log
\* for the values (orig, new, method, err) of t.  The error line is chosen
\* by `orig is None`; the other line shows sizes and method and no error.
_log_callback(src, t) ==
    IF t.orig = NoSize
    THEN [path |-> src, error |-> t.err, method |-> NoneStr]
    ELSE [path |-> src, error |-> NoneStr, method |-> t.method]

\* AppUI.update_file_result: item.status = "エラー" if error else "完了"
update_file_result(error) == IF error # NoneStr THEN "error" ELSE "done"

\* AppController._update_callback_via_ui(src, orig, new) calls
\* ui.update_file_result(src, new, "unknown"): error keeps its default None.
_update_callback_via_ui(src, t) == update_file_result(NoneStr)

\* The values the worker hands to self.log and self.update on this path.
Logged ==
    CASE call.kind = "dry" -> {dry_run_log(call.src, call.env)}
      [] call.kind = "real" -> {real_run_log(call.src, call.dst, call.env)}
      [] OTHER -> {}

\* The path from the point where no subprocess is in the way: to the
\* exception, or to the tuples returned, the values logged and what the two
\* callbacks make of them.
Finish ==
    IF CallRaises THEN call' = [call EXCEPT !.pc = "raised"]
    ELSE LET cs == IF call.kind = "dry"
                   THEN estimate_calls(call.src, call.env)
                   ELSE strategy_calls(call.src, call.dst, call.prefer_pngquant,
                                       CallJpegQuality, call.env)
             sc == smart_compress(call.src, call.dst, call.prefer_pngquant,
                                  CallJpegQuality, call.env)
         IN call' = [call EXCEPT
                !.pc = "returned",
                !.calls = cs,
                !.jpeg_quality = IF Ext(call.src) \in {".jpg", ".jpeg"}
                                 THEN CallJpegQuality ELSE 0,
                !.returned = IF call.kind = "dry" THEN {} ELSE {sc},
                !.logged = Logged,
                !.ui_lines = { _log_callback(call.src, t) : t \in Logged },
                !.ui_status = IF Logged = {} THEN @
                              ELSE _update_callback_via_ui(call.src, CHOOSE t \in Logged : TRUE)]

\* The item's path up to subprocess.check_call in compress_png_pngquant, or
\* to its end when pngquant is not called.
Invoke ==
    /\ call.pc = "queued"
    /\ IF RunsPngquant THEN call' = [call EXCEPT !.pc = "pngquant"] ELSE Finish
    /\ UNCHANGED poolVars

\* subprocess.check_call(cmd, ...) returns or raises when the subprocess has
\* exited; no timeout is passed.
PngquantExit ==
    /\ call.pc = "pngquant"
    /\ call.proc.exits
    /\ Finish
    /\ UNCHANGED poolVars

CallNext == on_start \/ Invoke \/ PngquantExit

CallSpec == CallInit /\ [][CallNext]_vars

\* The thread the item is on is scheduled whenever it has a step to take.
FairCallSpec == CallSpec /\ WF_vars(CallNext)

\* ------------------------------------------------------------- claims
Alive(w) == wk[w].pc \notin {"unborn", "exited", "dead"}
WorkersOf(r) == { w \in WorkerIds : w[1] = r /\ wk[w].pc # "unborn" }
Started(r) == r <= nruns
IsDryRun(r) == Started(r) /\ wk[<< r, 1 >>].dry
RunFaulted(r) == \E w \in WorkersOf(r) : wk[w].exc
Holders(i) == { w \in WorkersOf(i[1]) : wk[w].src = i[2] }
Idle == workers = << >> /\ task_queue = NoQueue /\ ~stop_event

\* C1: as long as no strategy call of a run has raised, every path of the run
\* is taken by at most one worker, a path whose processing is over has exactly
\* one log and one update callback, a path never taken has none, and no path
\* is reported twice, whatever stop() and the workers interleave to.
C1_ExactlyOneResult ==
    \A i \in Runs \X Paths :
        /\ hist[i].taken <= 1
        /\ Cardinality(Holders(i)) <= 1
        /\ hist[i].logged <= 1
        /\ hist[i].updated <= 1
        /\ hist[i].taken = 0 => hist[i].logged = 0 /\ hist[i].updated = 0
        /\ ~RunFaulted(i[1]) /\ hist[i].done >= 1 =>
              hist[i].logged = 1 /\ hist[i].updated = 1

\* A stopped two-worker run without faults: one path reported, one never taken.
C1_Witness ==
    \E r \in Runs :
        /\ ~RunFaulted(r)
        /\ wk[<< r, 1 >>].pc = "exited" /\ wk[<< r, 2 >>].pc = "exited"
        /\ Len(qitems[r]) = 1
        /\ \E p \in Paths : hist[<< r, p >>].done = 1 /\ hist[<< r, p >>].logged = 1
        /\ \E j \in JoinIds : jt[j].run = r

\* C2: all worker threads that are alive belong to one run.
C2_OneRunAlive ==
    \A w1, w2 \in WorkerIds : Alive(w1) /\ Alive(w2) => w1[1] = w2[1]

\* C3: no step taken while the worker list is non-empty starts a run, and the
\* step that logs the rejection changes nothing but the log line: queue and
\* contents, worker list, flag, worker and monitor threads stay as they were.
C3_RejectedStartFrame ==
    [][ /\ workers # << >> =>
              /\ nruns' = nruns
              /\ \A w \in WorkerIds : wk[w].pc = "unborn" => wk'[w].pc = "unborn"
              /\ \A r \in Runs : mon[r].pc = "unborn" => mon'[r].pc = "unborn"
        /\ uiLog' = "already running" /\ uiLog # "already running" =>
              /\ workers # << >>
              /\ UNCHANGED << task_queue, qitems, unfinished, workers, stop_event,
                              nruns, wk, mon, njoin, jt, hist, outdir >>
      ]_vars

\* A start request was rejected while a worker of the active run held an item
\* and the stop flag was set.
C3_Witness ==
    /\ uiLog = "already running"
    /\ workers # << >>
    /\ stop_event
    /\ \E w \in WorkerIds : wk[w].src # NoSrc

\* C4: an item whose processing is over (task_done made) has exactly one
\* result reported through both callbacks, also when a strategy call raised.
C4_FaultIsReported ==
    \A i \in Runs \X Paths :
        hist[i].done >= 1 => hist[i].logged = 1 /\ hist[i].updated = 1

\* C5: a worker about to call task_done has made both callbacks for the item
\* it holds, and when Queue.join() can return in _monitor_workers every item
\* put into that queue has had its callbacks.
C5_DoneAfterCallbacks ==
    /\ \A w \in WorkerIds :
           wk[w].pc = "task_done" =>
               hist[Item(w)].logged = 1 /\ hist[Item(w)].updated = 1
    /\ \A r \in Runs :
           mon[r].pc = "qjoin" /\ unfinished[mon[r].q] = 0 =>
               /\ qitems[mon[r].q] = << >>
               /\ \A p \in Paths :
                      hist[<< mon[r].q, p >>].taken >= 1 =>
                          /\ hist[<< mon[r].q, p >>].logged >= 1
                          /\ hist[<< mon[r].q, p >>].updated >= 1

\* C6: no run gets more than one "stop complete" notification.
C6_OneStopComplete ==
    \A r \in Runs : stopComplete[r] <= 1

\* A run whose watcher can do nothing more: it has ended, or it waits in
\* Queue.join() for a queue with tasks left and no thread to finish them.
WatcherOver(r) ==
    \/ mon[r].pc \in {"returned", "done"}
    \/ /\ mon[r].pc = "qjoin"
       /\ unfinished[mon[r].q] > 0
       /\ \A w \in WorkersOf(mon[r].q) : ~Alive(w)

\* C7: "all tasks complete" is emitted at most once per run, and a run whose
\* watcher is over has had it exactly once.
C7_AllCompleteOnce ==
    \A r \in Runs :
        /\ allComplete[r] <= 1
        /\ WatcherOver(r) => allComplete[r] = 1

\* C8: a stop() that found a run leads, with no further request, to the state
\* in which its join thread has emitted "stop complete" and the coordinator
\* is idle: worker list empty, queue reference cleared, flag cleared.
C8_StopReachesIdle ==
    \A j \in JoinIds :
        (jt[j].pc = "join") ~> (jt[j].pc = "done" /\ Idle /\ stopComplete[jt[j].run] >= 1)

\* A join thread ended while a worker of its run was still holding an item.
C8_Witness ==
    \E j \in JoinIds :
        /\ jt[j].pc = "done"
        /\ Idle
        /\ \E w \in WorkersOf(jt[j].run) : wk[w].src # NoSrc

\* C9: a dry run neither creates the output directory nor writes in it.
C9_DryRunLeavesOutdir ==
    \A r \in Runs :
        IsDryRun(r) => outdir.madeBy # r /\ r \notin outdir.writers

Tuples ==
    IF call.pc # "returned" THEN {}
    ELSE { call.calls[i].res : i \in 1..Len(call.calls) } \cup call.returned \cup call.logged

\* C11: in every tuple a strategy or smart_compress returns, and in the
\* values a worker hands to the log callback (real or dry run, any
\* extension), exactly one of new size and error is present.
C11_SizeXorError ==
    \A t \in Tuples : (t.new # NoSize) # (t.err # NoneStr)

\* A dry-run estimate of a JPEG has failed and has been logged: an error and
\* no new size.
C11_Witness ==
    /\ call.pc = "returned" /\ call.kind = "dry"
    /\ \E t \in call.logged : t.err = "jpeg-error" /\ t.new = NoSize

\* C12: a stop request made while no worker is listed only logs: the flag is
\* not set, no join thread is spawned, worker list and queue stay as they
\* were, no "stop complete" is emitted, and the line logged differs from the
\* line logged when a run is stopped.
C12_IdleStopIsNoOp ==
    [][ /\ workers = << >> =>
              /\ ~(stop_event' /\ ~stop_event)
              /\ njoin' = njoin
              /\ \A j \in JoinIds : jt[j].pc = "unborn" => jt'[j].pc = "unborn"
        /\ uiLog' = "stop: nothing running" /\ uiLog # "stop: nothing running" =>
              /\ workers = << >>
              /\ UNCHANGED << task_queue, qitems, unfinished, workers, stop_event, nruns,
                              wk, mon, njoin, jt, hist, stopComplete, allComplete, outdir >>
        /\ uiLog' = "stop: flag sent" /\ uiLog # "stop: flag sent" => workers # << >>
      ]_vars

\* A stop request found nothing running after a run had been started and
\* reset: nothing is listed, the flag is clear, no join thread exists.
C12_Witness ==
    /\ uiLog = "stop: nothing running"
    /\ nruns > 0
    /\ workers = << >> /\ task_queue = NoQueue /\ ~stop_event
    /\ njoin = 0

\* A run later than r has been installed by _start_workers: the queue
\* reference or the worker list is that of a later run.
LaterRunInstalled(r) ==
    \/ task_queue # NoQueue /\ task_queue > r
    \/ workers # << >> /\ workers[1][1] > r

\* C13: the reset made by a _join_workers thread spawned by a stop of run r,
\* or by the _monitor_workers thread of run r, is never made once a later
\* run's queue and worker list are installed.
C13_NoResetOfLaterRun ==
    [][ /\ \A j \in JoinIds :
              jt[j].pc = "join" /\ jt'[j].pc = "done" => ~LaterRunInstalled(jt[j].run)
        /\ \A r \in Runs :
              mon[r].pc = "qjoin" /\ mon'[r].pc = "done" => ~LaterRunInstalled(r)
      ]_vars

\* A stop request found run r in the worker list.
Stopped(r) == \E j \in JoinIds : jt[j].pc # "unborn" /\ jt[j].run = r

\* Every path enqueued for run r has been taken and reported.
AllReported(r) ==
    /\ qitems[r] = << >>
    /\ \A p \in Paths : hist[<< r, p >>].logged = hist[<< r, p >>].taken
                        /\ hist[<< r, p >>].updated = hist[<< r, p >>].taken

\* Run r is over as a normal run ends: results in, workers gone, the monitor
\* thread has reset the coordinator and emitted "all tasks complete".
Completed(r) ==
    /\ AllReported(r)
    /\ \A w \in WorkersOf(r) : wk[w].pc = "exited"
    /\ mon[r].pc = "done"
    /\ allComplete[r] >= 1

\* C14: a run that is never stopped (and, Clear never being pressed, never
\* cleared) and in which no strategy call raises is eventually complete:
\* every enqueued path reported, every worker exited, the coordinator reset
\* to idle by the run's monitor and "all tasks complete" emitted.
C14_RunCompletes ==
    \A r \in Runs : Started(r) ~> (Stopped(r) \/ RunFaulted(r) \/ Completed(r))

\* Paths whose extension is .jpg or .jpeg in any spelling, and .png.
JpegNames == { p \in Sources : splitext(p) \in {".jpg", ".JPG", ".jpeg"} }
PngNames == { p \in Sources : splitext(p) = ".png" }

\* The item's path went through smart_compress and smart_compress returned.
SmartCompressReturned == call.pc = "returned" /\ call.kind # "dry"

\* C15: for a .jpg/.jpeg source (whatever the case of its letters)
\* smart_compress calls the JPEG re-encoder and nothing else, and returns an
\* error when that call failed; for a source that is neither JPEG nor PNG it
\* calls no re-encoder and returns method "copy", no error and the source's
\* size as new size.
C15_DispatchByExtension ==
    SmartCompressReturned =>
        \A t \in call.returned :
            /\ call.src \in JpegNames =>
                  /\ Len(call.calls) = 1
                  /\ call.calls[1].fn = "compress_jpeg_pillow"
                  /\ call.calls[1].res.err # NoneStr =>
                        t.err # NoneStr /\ t.new = NoSize
                  /\ call.calls[1].res.err = NoneStr => t = call.calls[1].res
            /\ call.src \notin JpegNames \cup PngNames =>
                  /\ call.calls = << >>
                  /\ t.method = "copy" /\ t.err = NoneStr
                  /\ t.new = get_size(call.src) /\ t.orig = get_size(call.src)

\* smart_compress was called for /p/D.JPG, the re-encoder failed, and the
\* error came back with no other strategy tried.
C15_Witness ==
    /\ SmartCompressReturned
    /\ call.src = "/p/D.JPG"
    /\ Len(call.calls) = 1
    /\ \E t \in call.returned : t.err = "Pillow JPEG failed: jpeg-error"

\* C16: for a .png source smart_compress calls pngquant first when
\* prefer_pngquant is set and returns its success with Pillow not called;
\* when pngquant failed it calls the Pillow PNG re-encoder next and returns
\* its success; with prefer_pngquant unset pngquant is not called at all.
\* The tuple returned is an error exactly when every call made has failed.
C16_PngOrder ==
    SmartCompressReturned /\ call.src \in PngNames =>
        \A t \in call.returned :
            /\ call.prefer_pngquant =>
                  /\ Len(call.calls) >= 1
                  /\ call.calls[1].fn = "compress_png_pngquant"
                  /\ IF call.calls[1].res.err = NoneStr
                     THEN Len(call.calls) = 1 /\ t = call.calls[1].res
                     ELSE /\ Len(call.calls) = 2
                          /\ call.calls[2].fn = "compress_png_pillow"
                          /\ call.calls[2].res.err = NoneStr => t = call.calls[2].res
            /\ ~call.prefer_pngquant =>
                  /\ Len(call.calls) = 1
                  /\ call.calls[1].fn = "compress_png_pillow"
                  /\ call.calls[1].res.err = NoneStr => t = call.calls[1].res
            /\ t.err # NoneStr <=>
                  \A i \in 1..Len(call.calls) : call.calls[i].res.err # NoneStr

\* pngquant was tried and failed, Pillow was tried next and its result came back.
C16_Witness ==
    /\ SmartCompressReturned
    /\ call.src \in PngNames
    /\ call.prefer_pngquant
    /\ Len(call.calls) = 2
    /\ call.calls[1].res.err = "pngquant-error"
    /\ \E t \in call.returned : t.method = "Pillow(PNG lvl=9)" /\ t.err = NoneStr

\* The messages str(e) of the strategies, and the texts smart_compress puts
\* in front of one.
StrategyErrors == { "jpeg-error", "pngquant-error", "png-error" }
ErrorPrefixes == { "", "Pillow JPEG failed: ", "Both pngquant and Pillow failed: " }

\* The texts that hold the strategy message m: m alone, or m with another
\* strategy's message before or behind it.
ChainsWith(m) ==
    {m} \cup { m \o "; " \o o : o \in StrategyErrors } \cup { o \o "; " \o m : o \in StrategyErrors }

\* msg contains the strategy message m.
Carries(msg, m) ==
    \E pre \in ErrorPrefixes, c \in ChainsWith(m) : msg = pre \o c

\* msg says that pngquant failed.
NamesPngquant(msg) ==
    \E m \in StrategyErrors :
        \E c \in ChainsWith(m) : msg = "Both pngquant and Pillow failed: " \o c

\* C17: when every strategy tried for a .png has failed, the error returned
\* carries the failure message of each call made, and it names pngquant
\* only when pngquant was called.
C17_CombinedError ==
    SmartCompressReturned /\ call.src \in PngNames =>
        \A t \in call.returned :
            t.err # NoneStr =>
                /\ \A i \in 1..Len(call.calls) : Carries(t.err, call.calls[i].res.err)
                /\ NamesPngquant(t.err) =>
                      \E i \in 1..Len(call.calls) : call.calls[i].fn = "compress_png_pngquant"

\* C18: every successful tuple, of a strategy or of smart_compress, has as
\* original size the size the source had before the call and as new size the
\* size of the destination after the write, also when the destination is
\* the source file itself.
C18_SizesBeforeAndAfter ==
    SmartCompressReturned =>
        \A t \in Tuples \ call.logged :
            t.err = NoneStr =>
                /\ t.orig = get_size(call.src)
                /\ t.new = IF t.method = "copy" THEN get_size(call.src)
                           ELSE EncodedSize(call.src)

\* C19: a .jpg/.jpeg item of a run started from the UI, real or dry, is
\* re-encoded at the quality the start request carried (the spinbox value,
\* clamped to 10..100).
C19_RequestedQualityUsed ==
    call.pc = "returned" /\ call.kind \in {"real", "dry"} /\ call.src \in JpegNames =>
        call.jpeg_quality = UiQuality(call.quality)

\* The pngquant call of this item has succeeded.
PngquantSucceeded ==
    \E i \in 1..Len(call.calls) :
        call.calls[i].fn = "compress_png_pngquant" /\ call.calls[i].res.err = NoneStr

\* C20: a call of the external optimizer always comes back, whether or not
\* the subprocess ever exits, and it succeeds only when the exit code is 0
\* and the output file exists.
C20_PngquantCallReturns ==
    /\ (call.pc = "pngquant") ~> (call.pc \in {"returned", "raised"})
    /\ [](PngquantSucceeded => call.proc.rc = 0 /\ call.proc.wrote)

\* C21: an item is marked done at most as often as it was taken, and an item
\* taken and not yet marked done is in the hands of a worker that has still
\* to call task_done, whether its processing succeeded, returned an error
\* or raised; the queue's count of unfinished tasks says the same.
C21_TaskDoneOncePerItem ==
    /\ \A i \in Runs \X Paths :
          /\ hist[i].done <= hist[i].taken
          /\ hist[i].taken - hist[i].done = Cardinality(Holders(i))
          /\ \A w \in Holders(i) : wk[w].pc \in {"mkstemp", "estimate", "compress", "task_done"}
    /\ \A r \in Runs :
          unfinished[r] = Len(qitems[r])
              + Cardinality({ w \in WorkersOf(r) : wk[w].src # NoSrc })

\* In a real run an item's processing raised, and the item has been marked done.
C21_Witness ==
    \E w \in WorkerIds :
        /\ ~wk[w].dry /\ wk[w].pc = "dead"
        /\ \E p \in Paths : hist[<< w[1], p >>].taken = 1 /\ hist[<< w[1], p >>].done = 1
                            /\ hist[<< w[1], p >>].logged = 0

\* C22: a worker thread ends only at the top of its loop with the flag set
\* or at Queue.get with its queue empty; no step that processes an item ends it.
C22_WorkerEndsOnlyByLoopExit ==
    [][ \A w \in WorkerIds :
            Alive(w) /\ wk'[w].pc \in {"exited", "dead"} =>
                \/ wk[w].pc = "loop" /\ stop_event
                \/ wk[w].pc = "get" /\ qitems[w[1]] = << >>
      ]_vars

\* C23: once a stop request has found run r in the worker list, a worker of
\* run r that comes to the top of its loop leaves it; only a worker already
\* past that test, waiting in Queue.get, can take one further item.
C23_StoppedWorkerExitsAtLoopTop ==
    [][ \A w \in WorkerIds :
            Stopped(w[1]) /\ wk[w].pc = "loop" => wk'[w].pc \in {"loop", "exited"}
      ]_vars

\* C24: when a _join_workers thread resets the coordinator and emits "stop
\* complete", no worker of the run it was spawned to stop is alive.
C24_ResetAfterWorkersExited ==
    [][ \A j \in JoinIds :
            jt[j].pc = "join" /\ jt'[j].pc = "done" =>
                \A w \in WorkersOf(jt[j].run) : ~Alive(w)
      ]_vars

\* C25: for an item of a real or dry run whose logged result carries an
\* error, the log line made for it holds the source path and the error
\* message, and the item's status in the UI is the error status.
C25_FailureSurfaced ==
    call.pc = "returned" =>
        \A t \in call.logged :
            t.err # NoneStr =>
                /\ \A l \in call.ui_lines : l.path = call.src /\ l.error = t.err
                /\ call.ui_status = "error"

\* C26: the thread_count a run started from the UI receives is the
\* configured thread count: a setting of its own, so the same number
\* whatever value the quality spinbox holds.
C26_ThreadCountIsOwnSetting ==
    call.kind # "call" /\ call.pc # "ui" =>
        \A q \in Qualities : call.thread_count = ThreadCountOfRequest(q)

\* Worker w is in the coordinator's worker list.
Listed(w) == \E k \in 1..Len(workers) : workers[k] = w

\* C27: a clear request leaves every listed worker that is alive in the
\* worker list, and leaves the cancellation flag set when it was set and a
\* worker is alive.
C27_ClearKeepsLivePool ==
    [][ on_clear =>
            /\ \A w \in WorkerIds :
                  Alive(w) /\ Listed(w) => \E k \in 1..Len(workers') : workers'[k] = w
            /\ stop_event /\ (\E w \in WorkerIds : Alive(w)) => stop_event'
      ]_vars

\* Worker w is inside smart_compress for the item it holds.
Writing(w) == wk[w].pc = "compress" /\ ~wk[w].dry

\* C28: two workers of one run that are inside smart_compress for different
\* items at the same time write different destination paths, and different
\* "<dst>.tmp" paths.
C28_DistinctDestinations ==
    \A w1 \in WorkerIds, w2 \in WorkerIds :
        /\ w1 # w2 /\ w1[1] = w2[1]
        /\ Writing(w1) /\ Writing(w2)
        /\ wk[w1].src # wk[w2].src
        => /\ Dst(OutputDir, wk[w1].src) # Dst(OutputDir, wk[w2].src)
           /\ Dst(OutputDir, wk[w1].src) \o ".tmp" # Dst(OutputDir, wk[w2].src) \o ".tmp"

====
